---- MODULE Spec2Model ----
(***************************************************************************)
(* PythonAudioRoute: the mixing engine of src/PythonAudioRoute.py.         *)
(*                                                                         *)
(* Three kinds of thread act on the state:                                 *)
(*   - the control (GUI) thread runs the slots add_input_strip,            *)
(*     update_volume, start_stream, close_strip, restart_output_stream,    *)
(*     and closeEvent;                                                     *)
(*   - one capture thread per started input stream runs audio_callback;    *)
(*   - the playback thread of the started output stream runs               *)
(*     output_callback.                                                    *)
(* Every read or write of shared state is one step, so the threads         *)
(* interleave as the interpreter lets them.                                *)
(*                                                                         *)
(* Samples are integers in hundredths (1.0 is 100); volume is the slider   *)
(* value (hundredths too), so a chunk data * volume and everything the     *)
(* mixer sums is in ten-thousandths (1.0 is One = 10000).                  *)
(*                                                                         *)
(* Four specifications share the actions and differ in the inputs they     *)
(* draw:                                                                   *)
(*   Spec       the whole application, MaxStrips strips, one kind of       *)
(*              block, any number of blocks captured;                      *)
(*   SpecStrip  the whole application with OneStrip strip, every kind of   *)
(*              block, the blocks followed from put to get: each carries   *)
(*              its number, and MaxPush of them are captured;              *)
(*   SpecMix    output_callback and update_volume from every state of the  *)
(*              strips that an idle control thread leaves behind;          *)
(*   SpecPush   the capture threads of started strips filling empty queues *)
(*              with no consumer, until an output stream is started.       *)
(***************************************************************************)
EXTENDS Integers, Sequences, FiniteSets

\* ------------------------------------------------------------- bounds
\* Strip objects add_input_strip creates under Spec.
MaxStrips == 2
\* Strip objects add_input_strip creates under SpecStrip.
OneStrip == 1
\* Blocks a strip's capture streams deliver under SpecStrip.
MaxPush == 3
\* maxsize of audio_queue (line 25 has 10), scaled down.
QueueMaxSize == 2
\* BLOCK_SIZE, frames per block (line 12 has 1024), scaled down.
BLOCK_SIZE == 2

\* ------------------------------------------------------------- values
Strips == 1..MaxStrips
NoDevice == 0
Devices == {1}
\* Input devices the one strip of SpecStrip is switched between.
StripDevices == {1, 2}
\* 1.0 in the unit of a chunk
One == 10000
\* Positions of the slider (0..100) the model draws from.
SliderValues == {0, 50, 100}

Const(n, v) == [i \in 1..n |-> v]
Ramp(n) == [i \in 1..n |-> IF i = 1 THEN 30 ELSE -100]
AllOnes == Const(BLOCK_SIZE, 100)
\* What the driver hands to audio_callback as indata.
InBlocks == {AllOnes, Ramp(BLOCK_SIZE), Const(BLOCK_SIZE - 1, 100)}
\* What the driver hands to output_callback as frames.
OutFrames == {BLOCK_SIZE, BLOCK_SIZE - 1}

Range(f) == {f[i] : i \in DOMAIN f}

VARIABLES
  input_strips,   \* AudioRouterApp.input_strips: sequence of strips
  created,        \* number of AudioInputStrip objects constructed so far
  index,          \* strip.index
  stream,         \* strip.stream: "None", or the state of the stream it refers to
  audio_queue,    \* strip.audio_queue: sequence of [seq, data]
  volume,         \* strip.volume, in hundredths
  is_active,      \* strip.is_active
  device,         \* strip.device_combo.currentData()
  output_stream,  \* AudioRouterApp.output_stream, as stream
  opened,         \* the driver: per strip, the devices of the input streams
                  \* created and not closed, in the order of creation
  out_opened,     \* the driver: output streams created and not closed
  out_device,     \* AudioRouterApp.out_combo.currentData()
  capPc,          \* position of each strip's audio_callback
  mixPc,          \* position of output_callback
  mixFrames,      \* output_callback: frames
  mixIt,          \* output_callback: index of the list iterator
  mixStrip,       \* output_callback: strip
  mixData,        \* get_audio_chunk: data
  mixDev,         \* history: device the block in data was captured from
  mixed_audio,    \* output_callback: mixed_audio
  outdata,        \* output_callback: outdata
  ctlPc,          \* position of the control thread
  ctlStack,       \* control thread: labels to return to
  ctlSelf,        \* control thread: self of the running strip method
  ceIt,           \* closeEvent: index of the list iterator
  pushed,         \* history: blocks put so far, per strip
  lastRet,        \* history: seq of the block get_audio_chunk took last, per strip
  removed,        \* history: strips for which remove_input_strip has returned
  passStart,      \* history: input_strips when the running pass began
  passRemoved,    \* history: removed when the running pass began
  visited,        \* history: strips the running pass has called get_audio_chunk on
  chunks,         \* history: what those calls returned
  failed,         \* history: where the running control operation's open failed
  errShown        \* history: the running control operation showed QMessageBox.critical

regVars == <<input_strips, created, index, removed>>
outVars == <<output_stream, out_device>>
drvVars == <<opened, out_opened>>
capVars == <<capPc, pushed>>
mixVars == <<mixPc, mixFrames, mixIt, mixStrip, mixData, mixDev, mixed_audio, outdata,
             passStart, passRemoved, visited, chunks>>
ctlVars == <<ctlPc, ctlStack, ctlSelf, ceIt, failed, errShown>>
vars == <<regVars, drvVars, stream, audio_queue, volume, is_active, device, outVars,
          capVars, lastRet, mixVars, ctlVars>>

\* The threads before anything runs.
ThreadsInit ==
  /\ capPc = [s \in Strips |-> "idle"]
  /\ mixPc = "idle"
  /\ mixFrames = 0
  /\ mixIt = 0
  /\ mixStrip = 0
  /\ mixData = <<>>
  /\ mixDev = NoDevice
  /\ mixed_audio = <<>>
  /\ outdata = <<>>
  /\ ctlPc = "idle"
  /\ ctlStack = <<>>
  /\ ctlSelf = 0
  /\ ceIt = 0
  /\ lastRet = [s \in Strips |-> 0]
  /\ removed = {}
  /\ passStart = <<>>
  /\ passRemoved = {}
  /\ visited = <<>>
  /\ chunks = <<>>
  /\ failed = "no"
  /\ errShown = FALSE

\* AudioRouterApp.__init__ : no strips, no output stream.  The strip fields are
\* those AudioInputStrip.__init__ gives an object when it is constructed.
Init ==
  /\ input_strips = <<>>
  /\ created = 0
  /\ index = [s \in Strips |-> 0]
  /\ stream = [s \in Strips |-> "None"]
  /\ audio_queue = [s \in Strips |-> <<>>]
  /\ volume = [s \in Strips |-> 100]
  /\ is_active = [s \in Strips |-> FALSE]
  /\ device = [s \in Strips |-> NoDevice]
  /\ output_stream = "None"
  /\ out_device = NoDevice
  /\ opened = [s \in Strips |-> <<>>]
  /\ out_opened = 0
  /\ pushed = [s \in Strips |-> 0]
  /\ ThreadsInit

\* ------------------------------------------------------------- queue.Queue
FullOffByOne(q) == Len(q) > QueueMaxSize
\* Queue.full(): maxsize <= qsize
Full(q) == Len(q) >= QueueMaxSize
\* Queue.empty()
Empty(q) == Len(q) = 0
\* Queue.put(item) waits on not_full while qsize >= maxsize.
PutReady(q) == ~Full(q)

\* ------------------------------------------------------------- capture thread
\* The driver invokes audio_callback of a started stream; limit bounds the
\* blocks it delivers to the strip where they are counted.
CapInvoke(s, limit) ==
  /\ stream[s] = "running"
  /\ capPc[s] = "idle"
  /\ pushed[s] < limit
  /\ capPc' = [capPc EXCEPT ![s] = "full"]
  /\ UNCHANGED <<regVars, drvVars, stream, audio_queue, volume, is_active, device, outVars,
                 pushed, lastRet, mixVars, ctlVars>>

\* if self.audio_queue.full():
CapFull(s) ==
  /\ capPc[s] = "full"
  /\ capPc' = [capPc EXCEPT ![s] = IF Full(audio_queue[s]) THEN "drop" ELSE "put"]
  /\ UNCHANGED <<regVars, drvVars, stream, audio_queue, volume, is_active, device, outVars,
                 pushed, lastRet, mixVars, ctlVars>>

CapDropNothing(s) ==
  /\ capPc[s] = "drop"
  /\ capPc' = [capPc EXCEPT ![s] = "put"]
  /\ UNCHANGED <<regVars, drvVars, stream, audio_queue, volume, is_active, device, outVars,
                 pushed, lastRet, mixVars, ctlVars>>

CapDropNewest(s) ==
  /\ capPc[s] = "drop"
  /\ audio_queue' = [audio_queue EXCEPT ![s] =
                       IF Empty(@) THEN @ ELSE SubSeq(@, 1, Len(@) - 1)]
  /\ capPc' = [capPc EXCEPT ![s] = "put"]
  /\ UNCHANGED <<regVars, drvVars, stream, volume, is_active, device, outVars, pushed,
                 lastRet, mixVars, ctlVars>>

\* try: self.audio_queue.get_nowait() / except queue.Empty: pass
CapDrop(s) ==
  /\ capPc[s] = "drop"
  /\ audio_queue' = [audio_queue EXCEPT ![s] = IF Empty(@) THEN @ ELSE Tail(@)]
  /\ capPc' = [capPc EXCEPT ![s] = "put"]
  /\ UNCHANGED <<regVars, drvVars, stream, volume, is_active, device, outVars, pushed,
                 lastRet, mixVars, ctlVars>>

\* The device of the stream self.stream refers to, the one created last.
StreamDevice(s) ==
  IF opened[s] = <<>> THEN NoDevice ELSE opened[s][Len(opened[s])]

\* self.audio_queue.put(indata.copy()).  A specification that follows the blocks
\* has them tagged: seq numbers the puts of the strip, and pushed counts them;
\* dev is the device of the stream whose callback this is.
CapPut(s, indata, tagged) ==
  /\ capPc[s] = "put"
  /\ PutReady(audio_queue[s])
  /\ audio_queue' = [audio_queue EXCEPT ![s] =
                       Append(@, [seq |-> IF tagged THEN pushed[s] + 1 ELSE 0,
                                  data |-> indata,
                                  dev |-> StreamDevice(s)])]
  /\ pushed' = IF tagged THEN [pushed EXCEPT ![s] = @ + 1] ELSE pushed
  /\ capPc' = [capPc EXCEPT ![s] = "idle"]
  /\ UNCHANGED <<regVars, drvVars, stream, volume, is_active, device, outVars, lastRet,
                 mixVars, ctlVars>>

\* ------------------------------------------------------------- control thread
\* A slot runs on the GUI thread only when no other slot is running.

\* The running slot returns to the event loop.
Finish ==
  /\ ctlPc' = "idle"
  /\ ctlStack' = <<>>
  /\ ctlSelf' = 0
  /\ ceIt' = 0
  /\ failed' = "no"
  /\ errShown' = FALSE

\* stop_stream returns to its caller.
Return ==
  /\ ctlPc' = Head(ctlStack)
  /\ ctlStack' = Tail(ctlStack)

\* AudioRouterApp.add_input_strip; limit bounds the strips it creates.
AddInputStrip(limit) ==
  /\ ctlPc = "idle"
  /\ created < limit
  /\ LET strip == created + 1 IN
       /\ created' = strip
       /\ index' = [index EXCEPT ![strip] = Len(input_strips)]
       /\ input_strips' = Append(input_strips, strip)
  /\ UNCHANGED <<removed, drvVars, stream, audio_queue, volume, is_active, device, outVars,
                 capVars, lastRet, mixVars, ctlVars>>

\* AudioInputStrip.update_volume, the slider of strip s having moved to v
UpdateVolume(s, v) ==
  /\ ctlPc = "idle"
  /\ s \in Range(input_strips)
  /\ v # volume[s]
  /\ volume' = [volume EXCEPT ![s] = v]
  /\ UNCHANGED <<regVars, drvVars, stream, audio_queue, is_active, device, outVars,
                 capVars, lastRet, mixVars, ctlVars>>

SelectDeviceNoStop(s, d) ==
  /\ ctlPc = "idle"
  /\ s \in Range(input_strips)
  /\ d # device[s]
  /\ device' = [device EXCEPT ![s] = d]
  /\ ctlSelf' = s
  /\ ctlPc' = "ss_open"
  /\ UNCHANGED <<regVars, drvVars, stream, audio_queue, volume, is_active, outVars,
                 capVars, lastRet, mixVars, ctlStack, ceIt, failed, errShown>>

\* device_combo.currentIndexChanged of strip s, the user having picked d:
\* start_stream begins by calling stop_stream.
SelectDevice(s, d) ==
  /\ ctlPc = "idle"
  /\ s \in Range(input_strips)
  /\ d # device[s]
  /\ device' = [device EXCEPT ![s] = d]
  /\ ctlSelf' = s
  /\ ctlPc' = "st_flag"
  /\ ctlStack' = <<"ss_open">>
  /\ UNCHANGED <<regVars, drvVars, stream, audio_queue, volume, is_active, outVars,
                 capVars, lastRet, mixVars, ceIt, failed, errShown>>

\* stop_stream: self.is_active = False
StopFlag ==
  /\ ctlPc = "st_flag"
  /\ is_active' = [is_active EXCEPT ![ctlSelf] = FALSE]
  /\ ctlPc' = "st_stop"
  /\ UNCHANGED <<regVars, drvVars, stream, audio_queue, volume, device, outVars, capVars,
                 lastRet, mixVars, ctlStack, ctlSelf, ceIt, failed, errShown>>

StopStopNoWait ==
  /\ ctlPc = "st_stop"
  /\ IF stream[ctlSelf] = "None"
     THEN /\ ctlPc' = "st_clear"
          /\ stream' = stream
     ELSE /\ stream' = [stream EXCEPT ![ctlSelf] = "stopped"]
          /\ ctlPc' = "st_close"
  /\ UNCHANGED <<regVars, drvVars, audio_queue, volume, is_active, device, outVars,
                 capVars, lastRet, mixVars, ctlStack, ctlSelf, ceIt, failed, errShown>>

\* stop_stream: if self.stream: self.stream.stop(), which returns once the
\* callback in flight has finished.
StopStop ==
  /\ ctlPc = "st_stop"
  /\ IF stream[ctlSelf] = "None"
     THEN /\ ctlPc' = "st_clear"
          /\ stream' = stream
     ELSE /\ capPc[ctlSelf] = "idle"
          /\ stream' = [stream EXCEPT ![ctlSelf] = "stopped"]
          /\ ctlPc' = "st_close"
  /\ UNCHANGED <<regVars, drvVars, audio_queue, volume, is_active, device, outVars,
                 capVars, lastRet, mixVars, ctlStack, ctlSelf, ceIt, failed, errShown>>

StopCloseKeepsStream ==
  /\ ctlPc = "st_close"
  /\ ctlPc' = "st_clear"
  /\ UNCHANGED <<regVars, drvVars, stream, audio_queue, volume, is_active, device, outVars,
                 capVars, lastRet, mixVars, ctlStack, ctlSelf, ceIt, failed, errShown>>

\* stop_stream: self.stream.close(); self.stream = None
StopClose ==
  /\ ctlPc = "st_close"
  /\ opened' = [opened EXCEPT ![ctlSelf] = SubSeq(@, 1, Len(@) - 1)]
  /\ stream' = [stream EXCEPT ![ctlSelf] = "None"]
  /\ ctlPc' = "st_clear"
  /\ UNCHANGED <<regVars, out_opened, audio_queue, volume, is_active, device, outVars,
                 capVars, lastRet, mixVars, ctlStack, ctlSelf, ceIt, failed, errShown>>

StopClearNothing ==
  /\ ctlPc = "st_clear"
  /\ Return
  /\ UNCHANGED <<regVars, drvVars, stream, audio_queue, volume, is_active, device,
                 outVars, capVars, lastRet, mixVars, ctlSelf, ceIt, failed, errShown>>

\* stop_stream: with self.audio_queue.mutex: self.audio_queue.queue.clear()
StopClear ==
  /\ ctlPc = "st_clear"
  /\ audio_queue' = [audio_queue EXCEPT ![ctlSelf] = <<>>]
  /\ Return
  /\ UNCHANGED <<regVars, drvVars, stream, volume, is_active, device, outVars, capVars,
                 lastRet, mixVars, ctlSelf, ceIt, failed, errShown>>

\* start_stream: device_idx = currentData(); if None return; else
\* self.stream = sd.InputStream(...), which the driver may refuse.
StartOpen ==
  /\ ctlPc = "ss_open"
  /\ IF device[ctlSelf] = NoDevice
     THEN /\ Finish
          /\ UNCHANGED <<stream, opened>>
     ELSE /\ UNCHANGED <<ctlStack, ctlSelf, ceIt, errShown>>
          /\ \/ /\ stream' = [stream EXCEPT ![ctlSelf] = "open"]
                /\ opened' = [opened EXCEPT ![ctlSelf] = Append(@, device[ctlSelf])]
                /\ ctlPc' = "ss_start"
                /\ failed' = failed
             \/ /\ UNCHANGED <<stream, opened>>
                /\ ctlPc' = "ss_except"
                /\ failed' = "in_create"
  /\ UNCHANGED <<regVars, out_opened, audio_queue, volume, is_active, device, outVars,
                 capVars, lastRet, mixVars>>

\* start_stream: self.stream.start(), which the driver may refuse.
StartStart ==
  /\ ctlPc = "ss_start"
  /\ \/ /\ stream' = [stream EXCEPT ![ctlSelf] = "running"]
        /\ ctlPc' = "ss_active"
        /\ failed' = failed
     \/ /\ stream' = stream
        /\ ctlPc' = "ss_except"
        /\ failed' = "in_start"
  /\ UNCHANGED <<regVars, drvVars, audio_queue, volume, is_active, device, outVars,
                 capVars, lastRet, mixVars, ctlStack, ctlSelf, ceIt, errShown>>

\* start_stream: self.is_active = True
StartActive ==
  /\ ctlPc = "ss_active"
  /\ is_active' = [is_active EXCEPT ![ctlSelf] = TRUE]
  /\ Finish
  /\ UNCHANGED <<regVars, drvVars, stream, audio_queue, volume, device, outVars, capVars,
                 lastRet, mixVars>>

StartExceptNoStop ==
  /\ ctlPc = "ss_except"
  /\ errShown' = TRUE
  /\ device' = [device EXCEPT ![ctlSelf] = NoDevice]
  /\ ctlPc' = "ss_open"
  /\ UNCHANGED <<regVars, drvVars, stream, audio_queue, volume, is_active, outVars,
                 capVars, lastRet, mixVars, ctlStack, ctlSelf, ceIt, failed>>

\* The except branch of start_stream: the message box, then
\* device_combo.setCurrentIndex(0).  The index was not 0 (device_idx was not
\* None), so currentIndexChanged fires and the slot start_stream runs again, as
\* the last thing the handler does.
StartExcept ==
  /\ ctlPc = "ss_except"
  /\ errShown' = TRUE
  /\ device' = [device EXCEPT ![ctlSelf] = NoDevice]
  /\ ctlPc' = "st_flag"
  /\ ctlStack' = <<"ss_open">>
  /\ UNCHANGED <<regVars, drvVars, stream, audio_queue, volume, is_active, outVars,
                 capVars, lastRet, mixVars, ctlSelf, ceIt, failed>>

\* "Remove Input" of strip s clicked: close_strip begins by calling stop_stream.
CloseStrip(s) ==
  /\ ctlPc = "idle"
  /\ s \in Range(input_strips)
  /\ ctlSelf' = s
  /\ ctlPc' = "st_flag"
  /\ ctlStack' = <<"cs_remove">>
  /\ UNCHANGED <<regVars, drvVars, stream, audio_queue, volume, is_active, device,
                 outVars, capVars, lastRet, mixVars, ceIt, failed, errShown>>

\* list.remove(x): the list without the first item equal to x
RECURSIVE ListRemove(_, _)
ListRemove(l, x) ==
  IF l = <<>> THEN <<>>
  ELSE IF Head(l) = x THEN Tail(l)
  ELSE <<Head(l)>> \o ListRemove(Tail(l), x)

RemoveNothing(l, strip) == l

\* AudioRouterApp.remove_input_strip
RemoveInputStrip(l, strip) ==
  IF strip \in Range(l) THEN ListRemove(l, strip) ELSE l

\* close_strip: self.parent_mixer.remove_input_strip(self); self.deleteLater()
CloseRemove ==
  /\ ctlPc = "cs_remove"
  /\ input_strips' = RemoveInputStrip(input_strips, ctlSelf)
  /\ removed' = removed \cup {ctlSelf}
  /\ Finish
  /\ UNCHANGED <<created, index, drvVars, stream, audio_queue, volume, is_active, device,
                 outVars, capVars, lastRet, mixVars>>

\* out_combo.currentIndexChanged, the user having picked d: restart_output_stream
SelectOutput(d) ==
  /\ ctlPc = "idle"
  /\ d # out_device
  /\ out_device' = d
  /\ ctlPc' = "ro_stop"
  /\ UNCHANGED <<regVars, drvVars, stream, audio_queue, volume, is_active, device,
                 output_stream, capVars, lastRet, mixVars, ctlStack, ctlSelf, ceIt,
                 failed, errShown>>

\* restart_output_stream: if self.output_stream: self.output_stream.stop(),
\* which returns once the callback in flight has finished.
OutStop ==
  /\ ctlPc = "ro_stop"
  /\ IF output_stream = "None"
     THEN /\ ctlPc' = "ro_open"
          /\ output_stream' = output_stream
     ELSE /\ mixPc = "idle"
          /\ output_stream' = "stopped"
          /\ ctlPc' = "ro_close"
  /\ UNCHANGED <<regVars, drvVars, stream, audio_queue, volume, is_active, device,
                 out_device, capVars, lastRet, mixVars, ctlStack, ctlSelf, ceIt, failed,
                 errShown>>

\* restart_output_stream: self.output_stream.close(); self.output_stream = None
OutClose ==
  /\ ctlPc = "ro_close"
  /\ out_opened' = out_opened - 1
  /\ output_stream' = "None"
  /\ ctlPc' = "ro_open"
  /\ UNCHANGED <<regVars, opened, stream, audio_queue, volume, is_active, device,
                 out_device, capVars, lastRet, mixVars, ctlStack, ctlSelf, ceIt, failed,
                 errShown>>

\* restart_output_stream: device_idx = currentData(); if None return; else
\* self.output_stream = sd.OutputStream(...), which the driver may refuse.
OutOpen ==
  /\ ctlPc = "ro_open"
  /\ IF out_device = NoDevice
     THEN /\ Finish
          /\ UNCHANGED <<output_stream, out_opened>>
     ELSE /\ UNCHANGED <<ctlStack, ctlSelf, ceIt, errShown>>
          /\ \/ /\ output_stream' = "open"
                /\ out_opened' = out_opened + 1
                /\ ctlPc' = "ro_start"
                /\ failed' = failed
             \/ /\ UNCHANGED <<output_stream, out_opened>>
                /\ ctlPc' = "ro_except"
                /\ failed' = "out_create"
  /\ UNCHANGED <<regVars, opened, stream, audio_queue, volume, is_active, device,
                 out_device, capVars, lastRet, mixVars>>

\* restart_output_stream: self.output_stream.start(), which the driver may refuse.
OutStart ==
  /\ ctlPc = "ro_start"
  /\ \/ /\ output_stream' = "running"
        /\ Finish
     \/ /\ output_stream' = output_stream
        /\ ctlPc' = "ro_except"
        /\ failed' = "out_start"
        /\ UNCHANGED <<ctlStack, ctlSelf, ceIt, errShown>>
  /\ UNCHANGED <<regVars, drvVars, stream, audio_queue, volume, is_active, device,
                 out_device, capVars, lastRet, mixVars>>

OutExceptStopsInputs ==
  /\ ctlPc = "ro_except"
  /\ errShown' = TRUE
  /\ out_device' = NoDevice
  /\ is_active' = [s \in Strips |-> FALSE]
  /\ ctlPc' = "ro_stop"
  /\ UNCHANGED <<regVars, drvVars, stream, audio_queue, volume, device, output_stream,
                 capVars, lastRet, mixVars, ctlStack, ctlSelf, ceIt, failed>>

\* The except branch of restart_output_stream: the message box, then
\* out_combo.setCurrentIndex(0), which fires currentIndexChanged: the slot
\* restart_output_stream runs again, as the last thing the handler does.
OutExcept ==
  /\ ctlPc = "ro_except"
  /\ errShown' = TRUE
  /\ out_device' = NoDevice
  /\ ctlPc' = "ro_stop"
  /\ UNCHANGED <<regVars, drvVars, stream, audio_queue, volume, is_active, device,
                 output_stream, capVars, lastRet, mixVars, ctlStack, ctlSelf, ceIt,
                 failed>>

\* The window is closed: closeEvent runs on the control thread.
CloseEvent ==
  /\ ctlPc = "idle"
  /\ ctlPc' = "ce_stop"
  /\ UNCHANGED <<regVars, drvVars, stream, audio_queue, volume, is_active, device,
                 outVars, capVars, lastRet, mixVars, ctlStack, ctlSelf, ceIt,
                 failed, errShown>>

\* closeEvent: if self.output_stream: self.output_stream.stop(), which returns
\* once the callback in flight has finished; the for loop gets its iterator.
CeStop ==
  /\ ctlPc = "ce_stop"
  /\ IF output_stream = "None"
     THEN /\ ctlPc' = "ce_iter"
          /\ output_stream' = output_stream
     ELSE /\ mixPc = "idle"
          /\ output_stream' = "stopped"
          /\ ctlPc' = "ce_close"
  /\ ceIt' = 0
  /\ UNCHANGED <<regVars, drvVars, stream, audio_queue, volume, is_active, device,
                 out_device, capVars, lastRet, mixVars, ctlStack, ctlSelf, failed,
                 errShown>>

\* closeEvent: self.output_stream.close(); the attribute keeps the closed stream.
CeClose ==
  /\ ctlPc = "ce_close"
  /\ out_opened' = out_opened - 1
  /\ output_stream' = "closed"
  /\ ctlPc' = "ce_iter"
  /\ UNCHANGED <<regVars, opened, stream, audio_queue, volume, is_active, device,
                 out_device, capVars, lastRet, mixVars, ctlStack, ctlSelf, ceIt,
                 failed, errShown>>

CeIterStopsNothing ==
  /\ ctlPc = "ce_iter"
  /\ ctlPc' = "closed"
  /\ UNCHANGED <<regVars, drvVars, stream, audio_queue, volume, is_active, device,
                 outVars, capVars, lastRet, mixVars, ctlStack, ctlSelf, ceIt,
                 failed, errShown>>

\* closeEvent: for strip in self.input_strips: strip.stop_stream(); after the
\* loop event.accept(): the window closes and the application quits, so no
\* slot runs any more.
CeIter ==
  /\ ctlPc = "ce_iter"
  /\ IF ceIt < Len(input_strips)
     THEN /\ ctlSelf' = input_strips[ceIt + 1]
          /\ ceIt' = ceIt + 1
          /\ ctlStack' = <<"ce_iter">>
          /\ ctlPc' = "st_flag"
     ELSE /\ ctlPc' = "closed"
          /\ UNCHANGED <<ctlStack, ctlSelf, ceIt>>
  /\ UNCHANGED <<regVars, drvVars, stream, audio_queue, volume, is_active, device,
                 outVars, capVars, lastRet, mixVars, failed, errShown>>

\* ------------------------------------------------------------- playback thread
\* np.zeros((n, CHANNELS), dtype='float32')
Zeros(n) == Const(n, 0)

ScaleByNothing(data, v) == [i \in DOMAIN data |-> data[i] * 100]

\* data * self.volume
Scale(data, v) == [i \in DOMAIN data |-> data[i] * v]

AccumulateUnchecked(acc, chunk) ==
  [i \in DOMAIN acc |-> acc[i] + (IF i \in DOMAIN chunk THEN chunk[i] ELSE 0)]

\* if len(chunk) == len(mixed_audio): mixed_audio += chunk
Accumulate(acc, chunk) ==
  IF Len(chunk) = Len(acc) THEN [i \in DOMAIN acc |-> acc[i] + chunk[i]] ELSE acc

Min(a, b) == IF a < b THEN a ELSE b
Max(a, b) == IF a > b THEN a ELSE b

\* np.clip(mixed_audio, -1.0, 1.0, out=mixed_audio)
Clip(acc) == [i \in DOMAIN acc |-> Min(One, Max(-One, acc[i]))]

\* get_audio_chunk returns chunk to output_callback, which adds it and goes on
\* to the next strip of the loop.
ReturnChunk(chunk) ==
  /\ mixed_audio' = Accumulate(mixed_audio, chunk)
  /\ chunks' = Append(chunks, chunk)
  /\ mixPc' = "iter"

\* The driver invokes output_callback of the started output stream:
\* mixed_audio = np.zeros((frames, CHANNELS)), and the for loop gets its iterator.
MixBegin(frames) ==
  /\ output_stream = "running"
  /\ mixPc = "idle"
  /\ mixFrames' = frames
  /\ mixed_audio' = Zeros(frames)
  /\ mixIt' = 0
  /\ mixPc' = "iter"
  /\ passStart' = input_strips
  /\ passRemoved' = removed
  /\ visited' = <<>>
  /\ chunks' = <<>>
  /\ UNCHANGED <<regVars, drvVars, stream, audio_queue, volume, is_active, device, outVars,
                 capVars, lastRet, mixStrip, mixData, mixDev, outdata, ctlVars>>

\* for strip in self.input_strips: the list iterator yields the item at its
\* index in the list as it is now, or ends the loop when the index is past the
\* end; after the loop np.clip(...) and outdata[:] = mixed_audio.
MixIter ==
  /\ mixPc = "iter"
  /\ IF mixIt < Len(input_strips)
     THEN /\ mixStrip' = input_strips[mixIt + 1]
          /\ mixIt' = mixIt + 1
          /\ visited' = Append(visited, input_strips[mixIt + 1])
          /\ mixPc' = "active"
          /\ UNCHANGED <<mixed_audio, outdata>>
     ELSE /\ mixed_audio' = Clip(mixed_audio)
          /\ outdata' = Clip(mixed_audio)
          /\ mixPc' = "written"
          /\ UNCHANGED <<mixStrip, mixIt, visited>>
  /\ UNCHANGED <<regVars, drvVars, stream, audio_queue, volume, is_active, device, outVars,
                 capVars, lastRet, mixFrames, mixData, mixDev, passStart, passRemoved,
                 chunks, ctlVars>>

\* output_callback returns; its locals and the written buffer are the driver's.
MixReturn ==
  /\ mixPc = "written"
  /\ mixPc' = "idle"
  /\ mixFrames' = 0
  /\ mixIt' = 0
  /\ mixStrip' = 0
  /\ mixData' = <<>>
  /\ mixDev' = NoDevice
  /\ mixed_audio' = <<>>
  /\ outdata' = <<>>
  /\ passStart' = <<>>
  /\ passRemoved' = {}
  /\ visited' = <<>>
  /\ chunks' = <<>>
  /\ UNCHANGED <<regVars, drvVars, stream, audio_queue, volume, is_active, device, outVars,
                 capVars, lastRet, ctlVars>>

\* get_audio_chunk: if not self.is_active ...: return np.zeros(...)
MixActive ==
  /\ mixPc = "active"
  /\ IF is_active[mixStrip]
     THEN /\ mixPc' = "empty"
          /\ UNCHANGED <<mixed_audio, chunks>>
     ELSE ReturnChunk(Zeros(BLOCK_SIZE))
  /\ UNCHANGED <<regVars, drvVars, stream, audio_queue, volume, is_active, device, outVars,
                 capVars, lastRet, mixFrames, mixIt, mixStrip, mixData, mixDev, outdata,
                 passStart, passRemoved, visited, ctlVars>>

\* get_audio_chunk: if ... or self.audio_queue.empty(): return np.zeros(...)
MixEmpty ==
  /\ mixPc = "empty"
  /\ IF Empty(audio_queue[mixStrip])
     THEN ReturnChunk(Zeros(BLOCK_SIZE))
     ELSE /\ mixPc' = "get"
          /\ UNCHANGED <<mixed_audio, chunks>>
  /\ UNCHANGED <<regVars, drvVars, stream, audio_queue, volume, is_active, device, outVars,
                 capVars, lastRet, mixFrames, mixIt, mixStrip, mixData, mixDev, outdata,
                 passStart, passRemoved, visited, ctlVars>>

MixGetNoExcept ==
  /\ mixPc = "get"
  /\ IF Empty(audio_queue[mixStrip])
     THEN /\ mixPc' = "raised"
          /\ UNCHANGED <<audio_queue, mixData, mixDev, lastRet, mixed_audio, chunks>>
     ELSE /\ mixData' = Head(audio_queue[mixStrip]).data
          /\ mixDev' = Head(audio_queue[mixStrip]).dev
          /\ lastRet' = [lastRet EXCEPT ![mixStrip] = Head(audio_queue[mixStrip]).seq]
          /\ audio_queue' = [audio_queue EXCEPT ![mixStrip] = Tail(@)]
          /\ mixPc' = "scale"
          /\ UNCHANGED <<mixed_audio, chunks>>
  /\ UNCHANGED <<regVars, drvVars, stream, volume, is_active, device, outVars, capVars,
                 mixFrames, mixIt, mixStrip, outdata, passStart, passRemoved,
                 visited, ctlVars>>

MixGetNewest ==
  /\ mixPc = "get"
  /\ IF Empty(audio_queue[mixStrip])
     THEN /\ ReturnChunk(Zeros(BLOCK_SIZE))
          /\ UNCHANGED <<audio_queue, mixData, mixDev, lastRet>>
     ELSE LET q == audio_queue[mixStrip] IN
          /\ mixData' = q[Len(q)].data
          /\ mixDev' = q[Len(q)].dev
          /\ lastRet' = [lastRet EXCEPT ![mixStrip] = q[Len(q)].seq]
          /\ audio_queue' = [audio_queue EXCEPT ![mixStrip] = SubSeq(q, 1, Len(q) - 1)]
          /\ mixPc' = "scale"
          /\ UNCHANGED <<mixed_audio, chunks>>
  /\ UNCHANGED <<regVars, drvVars, stream, volume, is_active, device, outVars, capVars,
                 mixFrames, mixIt, mixStrip, outdata, passStart, passRemoved,
                 visited, ctlVars>>

\* get_audio_chunk: try: data = self.audio_queue.get_nowait()
\*                  except queue.Empty: return np.zeros(...)
MixGet ==
  /\ mixPc = "get"
  /\ IF Empty(audio_queue[mixStrip])
     THEN /\ ReturnChunk(Zeros(BLOCK_SIZE))
          /\ UNCHANGED <<audio_queue, mixData, mixDev, lastRet>>
     ELSE /\ mixData' = Head(audio_queue[mixStrip]).data
          /\ mixDev' = Head(audio_queue[mixStrip]).dev
          /\ lastRet' = [lastRet EXCEPT ![mixStrip] = Head(audio_queue[mixStrip]).seq]
          /\ audio_queue' = [audio_queue EXCEPT ![mixStrip] = Tail(@)]
          /\ mixPc' = "scale"
          /\ UNCHANGED <<mixed_audio, chunks>>
  /\ UNCHANGED <<regVars, drvVars, stream, volume, is_active, device, outVars, capVars,
                 mixFrames, mixIt, mixStrip, outdata, passStart, passRemoved,
                 visited, ctlVars>>

\* get_audio_chunk: return data * self.volume
MixScale ==
  /\ mixPc = "scale"
  /\ ReturnChunk(Scale(mixData, volume[mixStrip]))
  /\ mixData' = <<>>
  /\ mixDev' = NoDevice
  /\ UNCHANGED <<regVars, drvVars, stream, audio_queue, volume, is_active, device, outVars,
                 capVars, lastRet, mixFrames, mixIt, mixStrip, outdata, passStart,
                 passRemoved, visited, ctlVars>>

\* ------------------------------------------------------------- specifications
Capture(blocks, tagged) ==
  \E s \in Strips :
    \/ CapInvoke(s, MaxPush)
    \/ CapFull(s)
    \/ CapDrop(s)
    \/ \E indata \in blocks : CapPut(s, indata, tagged)

Playback(frameCounts) ==
  \/ \E frames \in frameCounts : MixBegin(frames)
  \/ MixIter
  \/ MixActive
  \/ MixEmpty
  \/ MixGet
  \/ MixScale
  \/ MixReturn

Volume(sliderValues) ==
  \E s \in Strips : \E v \in sliderValues : UpdateVolume(s, v)

OutputControl ==
  \/ \E d \in Devices \cup {NoDevice} : SelectOutput(d)
  \/ OutStop
  \/ OutClose
  \/ OutOpen
  \/ OutStart
  \/ OutExcept

Control(limit, devices) ==
  \/ AddInputStrip(limit)
  \/ \E s \in Strips : \E d \in devices \cup {NoDevice} : SelectDevice(s, d)
  \/ StopFlag
  \/ StopStop
  \/ StopClose
  \/ StopClear
  \/ StartOpen
  \/ StartStart
  \/ StartActive
  \/ StartExcept
  \/ \E s \in Strips : CloseStrip(s)
  \/ CloseRemove
  \/ OutputControl
  \/ CloseEvent
  \/ CeStop
  \/ CeClose
  \/ CeIter

\* The whole application with MaxStrips strips.
SpecSliders == {50, 100}
Next ==
  \/ Capture({AllOnes}, FALSE)
  \/ Playback({BLOCK_SIZE})
  \/ Volume(SpecSliders)
  \/ Control(MaxStrips, Devices)

Spec == Init /\ [][Next]_vars

\* The whole application with OneStrip strip, whose queue overflows.
NextStrip ==
  \/ Capture(InBlocks, TRUE)
  \/ Playback(OutFrames)
  \/ Volume(SliderValues)
  \/ Control(OneStrip, StripDevices)

SpecStrip == Init /\ [][NextStrip]_vars

\* The mixer from every state of the strips that an idle control thread with a
\* started output stream leaves behind: each strip either has no device
\* (inactive, no stream, empty queue) or a started stream (active) that has put
\* up to QueueMaxSize blocks.
Queues == UNION {[1..n -> InBlocks] : n \in 0..QueueMaxSize}
Tagged(q) == [i \in DOMAIN q |-> [seq |-> i, data |-> q[i], dev |-> 1]]

InitMix ==
  /\ input_strips = [i \in 1..MaxStrips |-> i]
  /\ created = MaxStrips
  /\ index = [s \in Strips |-> s - 1]
  /\ \E bound \in SUBSET Strips :
       /\ stream = [s \in Strips |-> IF s \in bound THEN "running" ELSE "None"]
       /\ is_active = [s \in Strips |-> s \in bound]
       /\ device = [s \in Strips |-> IF s \in bound THEN 1 ELSE NoDevice]
       /\ \E qs \in [Strips -> Queues] :
            /\ audio_queue = [s \in Strips |-> IF s \in bound THEN Tagged(qs[s]) ELSE <<>>]
            /\ pushed = [s \in Strips |-> IF s \in bound THEN Len(qs[s]) ELSE 0]
       /\ opened = [s \in Strips |-> IF s \in bound THEN <<1>> ELSE <<>>]
  /\ volume \in [Strips -> SliderValues]
  /\ output_stream = "running"
  /\ out_device = 1
  /\ out_opened = 1
  /\ ThreadsInit

NextMix == Playback(OutFrames) \/ Volume(SliderValues)

SpecMix == InitMix /\ [][NextMix]_vars

\* The capture threads of started strips with empty queues and no consumer: no
\* output stream is open until the user picks an output device, and no strip
\* is stopped.
InitPush ==
  /\ input_strips = [i \in 1..MaxStrips |-> i]
  /\ created = MaxStrips
  /\ index = [s \in Strips |-> s - 1]
  /\ stream = [s \in Strips |-> "running"]
  /\ is_active = [s \in Strips |-> TRUE]
  /\ device = [s \in Strips |-> 1]
  /\ audio_queue = [s \in Strips |-> <<>>]
  /\ pushed = [s \in Strips |-> 0]
  /\ volume = [s \in Strips |-> 100]
  /\ output_stream = "None"
  /\ out_device = NoDevice
  /\ opened = [s \in Strips |-> <<1>>]
  /\ out_opened = 0
  /\ ThreadsInit

NextPush == Capture({AllOnes}, TRUE) \/ Playback({BLOCK_SIZE}) \/ OutputControl

SpecPush == InitPush /\ [][NextPush]_vars

\* ------------------------------------------------------------- claims
\* The step is one of strip s's audio_callback.
CaptureStep(s) == capPc'[s] # capPc[s]

\* C1: in every reachable state, whatever the capture callbacks, the mixing
\* passes and the control operations have done, each strip's audio_queue holds
\* at most QueueMaxSize blocks.
BufferBounded == \A s \in Strips : Len(audio_queue[s]) <= QueueMaxSize

\* C1 witness: a queue at capacity after more blocks were put than it holds.
BufferAtCapacityAfterOverflow ==
  \E s \in Strips : Len(audio_queue[s]) = QueueMaxSize /\ pushed[s] > QueueMaxSize

\* C2: whenever audio_callback is at its put, the queue holds fewer than
\* QueueMaxSize blocks, so the put goes ahead without waiting for a consumer.
PushNeverWaits ==
  \A s \in Strips :
    capPc[s] = "put" =>
      /\ Len(audio_queue[s]) < QueueMaxSize
      /\ ENABLED CapPut(s, AllOnes, TRUE)

\* C2 witness: the callback is at its put after it found the queue full and
\* dropped a block.
PutAfterDrop ==
  \E s \in Strips :
    /\ capPc[s] = "put"
    /\ Len(audio_queue[s]) = QueueMaxSize - 1
    /\ pushed[s] >= QueueMaxSize
    /\ mixPc # "idle"

\* C7 as claimed: a step of audio_callback that takes a block out of the queue
\* takes the oldest one, and takes it from a queue that holds exactly
\* QueueMaxSize blocks; a callback that finds fewer discards nothing.
DiscardOnlyAtCapacity ==
  [][\A s \in Strips :
       (CaptureStep(s) /\ audio_queue'[s] # audio_queue[s] /\ capPc[s] # "put") =>
         /\ audio_queue'[s] = Tail(audio_queue[s])
         /\ Len(audio_queue[s]) = QueueMaxSize]_vars

\* The step is one of the control thread inside a slot.
ControlStep == ctlPc' # ctlPc
\* The step is one of output_callback.
MixStep == mixPc' # mixPc

Count(seq, x) == Cardinality({i \in DOMAIN seq : seq[i] = x})

\* C3 as claimed: when a pass has written its output, every strip that was in
\* input_strips when the pass began and still is has been visited exactly once
\* by it.
PassVisitsStableStripsOnce ==
  mixPc = "written" =>
    \A s \in Range(passStart) \cap Range(input_strips) : Count(visited, s) = 1

\* The sum, at sample i, of the chunks of cs that have n frames.
RECURSIVE MatchingSum(_, _, _)
MatchingSum(cs, n, i) ==
  IF cs = <<>> THEN 0
  ELSE (IF Len(Head(cs)) = n THEN Head(cs)[i] ELSE 0) + MatchingSum(Tail(cs), n, i)

\* C4: what a pass writes is, at every sample, the sum of the chunks
\* get_audio_chunk returned to it that have as many frames as the pass was
\* asked for, clipped to [-1.0, 1.0]; chunks of another size are left out and
\* the pass still writes; one chunk was returned per strip visited.
OutputIsClippedSum ==
  mixPc = "written" =>
    /\ Len(outdata) = mixFrames
    /\ Len(chunks) = Len(visited)
    /\ \A i \in 1..mixFrames :
         LET sum == MatchingSum(chunks, mixFrames, i) IN
         /\ outdata[i] = (IF sum > One THEN One ELSE IF sum < -One THEN -One ELSE sum)
         /\ -One <= outdata[i]
         /\ outdata[i] <= One

\* C4 witness: two strips at gain 1.0 each returned an all-ones block, and the
\* pass wrote all 1.0.
TwoAllOnesClipped ==
  /\ mixPc = "written"
  /\ chunks = <<Const(BLOCK_SIZE, One), Const(BLOCK_SIZE, One)>>
  /\ outdata = Const(BLOCK_SIZE, One)

\* C5: the blocks get_audio_chunk takes are taken oldest first, each at most
\* once (the queue holds blocks in the order they were put, all put after the
\* one taken last); what it returns for a block is the block times the volume
\* read, all zeros when the volume is 0; and a block leaves the queue only by
\* being taken by get_audio_chunk, dropped by audio_callback or cleared by
\* stop_stream.
QueueInPushOrder ==
  \A s \in Strips :
    LET q == audio_queue[s] IN
    /\ \A i \in DOMAIN q : lastRet[s] < q[i].seq /\ q[i].seq <= pushed[s]
    /\ \A i, j \in DOMAIN q : i < j => q[i].seq < q[j].seq

TakenOldestFirst ==
  \A s \in Strips :
    LET q == audio_queue[s] IN
    /\ lastRet'[s] # lastRet[s] =>
         /\ q # <<>>
         /\ lastRet'[s] = q[1].seq
         /\ lastRet'[s] > lastRet[s]
         /\ \A i \in DOMAIN q : q[1].seq <= q[i].seq
         /\ mixData' = q[1].data
         /\ audio_queue'[s] = Tail(q)
    /\ \A i \in DOMAIN q :
         (\A j \in DOMAIN audio_queue'[s] : audio_queue'[s][j] # q[i]) =>
           \/ lastRet'[s] = q[i].seq
           \/ capPc[s] = "drop" /\ capPc'[s] = "put"
           \/ ctlPc = "st_clear" /\ ctlSelf = s /\ ControlStep

ReturnedScaled ==
  (mixPc = "scale" /\ MixStep) =>
    LET chunk == [i \in DOMAIN mixData |-> mixData[i] * volume[mixStrip]] IN
    /\ chunks' = Append(chunks, chunk)
    /\ volume[mixStrip] = 0 => \A i \in DOMAIN chunk : chunk[i] = 0

BlocksReturnedInOrderScaled ==
  []QueueInPushOrder /\ [][TakenOldestFirst /\ ReturnedScaled]_vars

\* C5 witness: the second or a later block of a strip at gain 0.5 was returned
\* as all 0.5.
SecondBlockReturnedHalved ==
  /\ mixPc = "iter"
  /\ mixStrip # 0
  /\ lastRet[mixStrip] >= 2
  /\ volume[mixStrip] = 50
  /\ chunks # <<>>
  /\ chunks[Len(chunks)] = Const(BLOCK_SIZE, 5000)

\* C6: get_audio_chunk never raises and never waits; when it finds the strip
\* inactive or the queue empty, at its check or at its get_nowait after
\* stop_stream cleared the queue in between, it returns silence and takes
\* nothing from the queue.
NeverRaisesNorWaits ==
  /\ mixPc # "raised"
  /\ mixPc \in {"active", "empty", "get", "scale"} =>
       ENABLED (MixActive \/ MixEmpty \/ MixGet \/ MixScale)

SilenceWhenNothingToTake ==
  (MixStep /\ \/ mixPc = "active" /\ ~is_active[mixStrip]
              \/ mixPc \in {"empty", "get"} /\ Empty(audio_queue[mixStrip])) =>
    /\ chunks' = Append(chunks, Zeros(BLOCK_SIZE))
    /\ audio_queue' = audio_queue
    /\ mixPc' = "iter"

UnderrunYieldsSilence ==
  []NeverRaisesNorWaits /\ [][SilenceWhenNothingToTake]_vars

\* C6 witness: get_audio_chunk is at its get_nowait, having seen a block, and
\* stop_stream has cleared the queue.
ClearedBetweenCheckAndGet ==
  /\ mixPc = "get"
  /\ Empty(audio_queue[mixStrip])
  /\ ~is_active[mixStrip]
  /\ pushed[mixStrip] > 0

\* C8: when a start_stream whose sd.InputStream(...) or stream.start() failed
\* returns, the strip is inactive, its stream is None and the message box has
\* been shown.
FailedOpenLeavesInactive ==
  [][(ControlStep /\ ctlPc' = "idle" /\ failed \in {"in_create", "in_start"}) =>
       /\ stream'[ctlSelf] = "None"
       /\ ~is_active'[ctlSelf]
       /\ errShown]_vars

\* C8 witness: a start_stream whose stream.start() failed is about to return,
\* the stream it had created closed.
FailedStartAboutToReturn ==
  /\ ctlPc = "ss_open"
  /\ failed = "in_start"
  /\ device[ctlSelf] = NoDevice
  /\ stream[ctlSelf] = "None"

\* C9: no step of restart_output_stream changes input_strips or any strip's
\* stream, is_active, volume or audio_queue, and when it returns after its
\* open failed output_stream is None; no step of start_stream changes those
\* fields of another strip or input_strips.
OutLabels == {"ro_stop", "ro_close", "ro_open", "ro_start", "ro_except"}
StartLabels == {"ss_open", "ss_start", "ss_active", "ss_except"}
InRestartOutput == ctlPc \in OutLabels
InStartStream ==
  ctlPc \in StartLabels \/ (ctlStack # <<>> /\ ctlStack[Len(ctlStack)] = "ss_open")

OutputOpenIsLocal ==
  (ControlStep /\ (InRestartOutput \/ InRestartOutput')) =>
    /\ UNCHANGED <<input_strips, stream, is_active, volume, audio_queue>>
    /\ (ctlPc' = "idle" /\ failed \in {"out_create", "out_start"}) =>
         output_stream' = "None"

InputOpenIsLocal ==
  (ControlStep /\ (InStartStream \/ InStartStream')) =>
    /\ input_strips' = input_strips
    /\ \A s \in Strips \ {ctlSelf, ctlSelf'} :
         /\ stream'[s] = stream[s]
         /\ is_active'[s] = is_active[s]
         /\ volume'[s] = volume[s]
         /\ audio_queue'[s] = audio_queue[s]

OpenFailureIsLocal == [][OutputOpenIsLocal /\ InputOpenIsLocal]_vars

\* C9 witness: a restart_output_stream whose stream.start() failed is about to
\* return while a strip is active with a block in its queue.
FailedOutputStartAboutToReturn ==
  /\ ctlPc = "ro_open"
  /\ failed = "out_start"
  /\ out_device = NoDevice
  /\ output_stream = "None"
  /\ \E s \in Strips : is_active[s] /\ audio_queue[s] # <<>>

\* C10: close_strip calls remove_input_strip on a strip that is still listed
\* and already stopped (stream None, inactive, queue empty); a removed strip is
\* not listed any more, and a pass visits no strip whose removal had returned
\* when it began and gets chunks only from the strips it visits.
RemovedAfterStopAndNeverMixed ==
  /\ ctlPc = "cs_remove" =>
       /\ ctlSelf \in Range(input_strips)
       /\ stream[ctlSelf] = "None"
       /\ ~is_active[ctlSelf]
       /\ audio_queue[ctlSelf] = <<>>
  /\ removed \cap Range(input_strips) = {}
  /\ \A i \in DOMAIN visited : visited[i] \notin passRemoved
  /\ Len(chunks) <= Len(visited)

\* C10 witness: a pass that began after a strip had been removed has visited
\* another strip, while the removed one had been capturing.
PassAfterRemoval ==
  /\ passRemoved # {}
  /\ visited # <<>>
  /\ \E s \in Strips \ passRemoved : audio_queue[s] # <<>>

\* C11: a capture callback is in flight only on a started stream, and once
\* stop_stream has cleared the queue of a strip it stays empty for as long as
\* the strip has no started stream, whatever callbacks were in flight when
\* stop_stream was called; a stream, input or output, is closed only after it
\* was stopped.
QuietOnceStopped ==
  \A s \in Strips :
    /\ stream[s] # "running" => capPc[s] = "idle"
    /\ (stream[s] \in {"None", "open"} /\ ~(ctlSelf = s /\ ctlPc = "st_clear")) =>
         audio_queue[s] = <<>>

StoppedBeforeClosed ==
  /\ \A s \in Strips :
       (stream[s] # "None" /\ stream'[s] = "None") => stream[s] = "stopped"
  /\ (output_stream \notin {"None", "closed"} /\ output_stream' \in {"None", "closed"}) =>
       output_stream = "stopped"

NoDanglingCallback == []QuietOnceStopped /\ [][StoppedBeforeClosed]_vars

\* C11 witness: stop_stream has returned to close_strip on a strip that had
\* captured, while get_audio_chunk of that strip is at its get_nowait.
StopReturnedWhileMixerTakes ==
  /\ ctlPc = "cs_remove"
  /\ pushed[ctlSelf] > 0
  /\ mixPc = "get"
  /\ mixStrip = ctlSelf
  /\ audio_queue[ctlSelf] = <<>>
  /\ stream[ctlSelf] = "None"

\* C12 as claimed: no two strips ever constructed have the same index, so no
\* two strips listed in input_strips at the same time have.
IndexNeverReused ==
  \A s, t \in 1..created : s # t => index[s] # index[t]

\* C13 as claimed: whenever get_audio_chunk is about to read is_active, the
\* flag is true exactly when the strip's stream is open and started.
ActiveIffRunning ==
  mixPc = "active" => (is_active[mixStrip] <=> stream[mixStrip] = "running")

\* C14: every strip's volume is within [0.0, 1.0] in every reachable state;
\* it changes only by update_volume, which stores the slider's value in one
\* step, so the volume read is the one the last update_volume stored; and
\* get_audio_chunk returns the block it took times the volume it reads then,
\* hence times g when update_volume stored g before the call began and none
\* ran since.
GainInRange == \A s \in Strips : 0 <= volume[s] /\ volume[s] <= 100

GainSetOnlyByUpdateVolume ==
  \A s \in Strips :
    volume'[s] # volume[s] =>
      /\ ctlPc = "idle" /\ ctlPc' = "idle"
      /\ s \in Range(input_strips)
      /\ \A t \in Strips \ {s} : volume'[t] = volume[t]
      /\ UNCHANGED <<audio_queue, mixVars, capVars>>

ScalesByStoredGain ==
  (mixPc = "scale" /\ MixStep) =>
    /\ Len(chunks') = Len(chunks) + 1
    /\ \A i \in 1..BLOCK_SIZE :
         i \in DOMAIN mixData => chunks'[Len(chunks')][i] = mixData[i] * volume[mixStrip]
    /\ volume' = volume

GainBoundedAndApplied ==
  []GainInRange /\ [][GainSetOnlyByUpdateVolume /\ ScalesByStoredGain]_vars

\* C14 witness: with the volume of a strip set to 0.5, get_audio_chunk has
\* returned the block (0.3, -1.0) as (0.15, -0.5).
RampReturnedHalved ==
  /\ mixPc = "iter"
  /\ mixStrip # 0
  /\ volume[mixStrip] = 50
  /\ chunks # <<>>
  /\ chunks[Len(chunks)] = [i \in 1..BLOCK_SIZE |-> IF i = 1 THEN 1500 ELSE -5000]

\* C15: when stop_stream returns, the strip's stream is None, its queue is
\* empty and is_active is False; and a stop_stream that runs on a strip in
\* that state changes no strip's stream, queue or flag nor the output stream,
\* and stops or closes nothing.
StopLeavesStopped ==
  (ctlPc = "st_clear" /\ ControlStep) =>
    /\ stream'[ctlSelf] = "None"
    /\ audio_queue'[ctlSelf] = <<>>
    /\ ~is_active'[ctlSelf]

StopOfStoppedChangesNothing ==
  (/\ ControlStep
   /\ ctlPc \in {"st_flag", "st_stop", "st_close", "st_clear"}
   /\ stream[ctlSelf] = "None"
   /\ audio_queue[ctlSelf] = <<>>
   /\ ~is_active[ctlSelf]) =>
    /\ UNCHANGED <<stream, audio_queue, is_active, output_stream>>
    /\ ctlPc # "st_close"
    /\ ctlPc' # "st_close"

StopIsIdempotent == [][StopLeavesStopped /\ StopOfStoppedChangesNothing]_vars

\* C15 witness: the stop_stream that start_stream called has stopped a strip
\* that had captured, sd.InputStream(...) then failed, and the stop_stream of
\* the slot run by setCurrentIndex(0) is at its clear, with nothing in between.
SecondStopAtClear ==
  /\ ctlPc = "st_clear"
  /\ failed = "in_create"
  /\ pushed[ctlSelf] > 0
  /\ stream[ctlSelf] = "None"
  /\ audio_queue[ctlSelf] = <<>>
  /\ ~is_active[ctlSelf]

\* C16: as long as no block of a strip has been taken, after k pushes its
\* queue holds the last min(k, QueueMaxSize) blocks pushed, in push order:
\* exactly QueueMaxSize of them once k exceeds it; and get_audio_chunk then
\* takes the oldest of these first.
LastPushed(s) ==
  LET n == Min(pushed[s], QueueMaxSize) IN
  /\ Len(audio_queue[s]) = n
  /\ \A i \in 1..n : audio_queue[s][i].seq = pushed[s] - n + i

KeepsLastPushed ==
  \A s \in Strips : (lastRet[s] = 0 /\ capPc[s] = "idle") => LastPushed(s)

FirstTakenIsOldestKept ==
  \A s \in Strips :
    (lastRet[s] = 0 /\ lastRet'[s] # 0 /\ capPc[s] = "idle") =>
      /\ lastRet'[s] = pushed[s] - Min(pushed[s], QueueMaxSize) + 1
      /\ audio_queue'[s] = Tail(audio_queue[s])
      /\ \A i \in DOMAIN audio_queue'[s] : audio_queue'[s][i].seq = lastRet'[s] + i

OverflowKeepsLastBlocks == []KeepsLastPushed /\ [][FirstTakenIsOldestKept]_vars

\* C16 witness: with no output stream open and nothing ever taken, a strip
\* has pushed more blocks than the queue holds and its queue is full.
PushedPastCapacityUnconsumed ==
  /\ output_stream = "None"
  /\ mixPc = "idle"
  /\ \E s \in Strips :
       /\ pushed[s] > QueueMaxSize
       /\ lastRet[s] = 0
       /\ capPc[s] = "idle"
       /\ Len(audio_queue[s]) = QueueMaxSize

\* C17 as claimed: add_input_strip lengthens input_strips by exactly one, the
\* new strip last, the strips before it and their fields as they were, the
\* new strip with no stream, inactive and with an empty queue; and every pass
\* that began with a strip listed (so after its add_input_strip returned) has
\* visited it when it writes its output, the strip still being listed.
AddAppendsOne ==
  (created' # created) =>
    /\ created' = created + 1
    /\ input_strips' = Append(input_strips, created')
    /\ UNCHANGED <<stream, is_active, audio_queue, volume, device>>
    /\ stream[created'] = "None"
    /\ ~is_active[created']
    /\ audio_queue[created'] = <<>>

PassVisitsListed ==
  mixPc = "written" =>
    \A s \in Range(passStart) \cap Range(input_strips) :
      \E i \in DOMAIN visited : visited[i] = s

AddedStripJoinsNextPass == []PassVisitsListed /\ [][AddAppendsOne]_vars

\* C18: in every reachable state the driver has at most one input stream of
\* each strip open, the one strip.stream refers to, and a capture callback in
\* flight is that stream's; it has at most one output stream open, the one
\* output_stream refers to; and a stream is created only when the one before
\* it has been closed, on the failure paths too.
OneStreamOpen ==
  /\ \A s \in Strips :
       /\ Len(opened[s]) <= 1
       /\ stream[s] # "None" <=> Len(opened[s]) = 1
       /\ capPc[s] # "idle" => Len(opened[s]) = 1
  /\ out_opened <= 1
  /\ output_stream \notin {"None", "closed"} <=> out_opened = 1
  /\ mixPc # "idle" => out_opened = 1

CreatedAfterClose ==
  /\ \A s \in Strips :
       Len(opened'[s]) > Len(opened[s]) => (opened[s] = <<>> /\ stream[s] = "None")
  /\ out_opened' > out_opened => (out_opened = 0 /\ output_stream = "None")

SingleProducer == []OneStreamOpen /\ [][CreatedAfterClose]_vars

\* C18 witness: start_stream has created a stream on device 2 for a strip
\* whose earlier stream, on device 1, delivered the block get_audio_chunk is
\* holding.
NewStreamAfterOldCaptured ==
  /\ ctlPc = "ss_start"
  /\ opened[ctlSelf] = <<2>>
  /\ mixPc = "scale"
  /\ mixStrip = ctlSelf
  /\ mixDev = 1

\* The control thread is inside stop_stream of strip s.
InStopStream(s) ==
  ctlSelf = s /\ ctlPc \in {"st_flag", "st_stop", "st_close", "st_clear"}

\* C19: outside stop_stream, so once start_stream has returned, every block
\* in a strip's queue was captured from the device now selected for the strip,
\* none from a device selected before; and a block get_audio_chunk takes then
\* was captured from that device.
NoStaleBlocks ==
  \A s \in Strips :
    ~InStopStream(s) =>
      \A i \in DOMAIN audio_queue[s] :
        /\ audio_queue[s][i].dev = device[s]
        /\ audio_queue[s][i].dev # NoDevice

TakenFromSelectedDevice ==
  \A s \in Strips :
    (lastRet'[s] # lastRet[s] /\ ~InStopStream(s)) =>
      /\ mixDev' = device[s]
      /\ mixDev' = StreamDevice(s)

NoStaleAudioAfterDeviceChange ==
  []NoStaleBlocks /\ [][TakenFromSelectedDevice]_vars

\* C19 witness: start_stream has returned with device 2 selected and the
\* queue holds blocks again, while a get_audio_chunk that began before is
\* still holding a block captured from device 1.
OnlyCallInFlightHoldsOldBlock ==
  /\ ctlPc = "idle"
  /\ mixPc = "scale"
  /\ mixDev = 1
  /\ device[mixStrip] = 2
  /\ audio_queue[mixStrip] # <<>>

\* C20: once closeEvent has completed, the output stream, if there was one,
\* is closed and was stopped before it was closed; every strip listed has no
\* stream, is inactive and has an empty queue; the driver has no stream open,
\* no callback is in flight and none can begin.
ShutdownReleased ==
  ctlPc = "closed" =>
    /\ output_stream \in {"None", "closed"}
    /\ out_opened = 0
    /\ \A s \in Range(input_strips) :
         /\ stream[s] = "None"
         /\ ~is_active[s]
         /\ audio_queue[s] = <<>>
    /\ \A s \in Strips : opened[s] = <<>> /\ capPc[s] = "idle"
    /\ mixPc = "idle"
    /\ ~ENABLED (\/ MixBegin(BLOCK_SIZE)
                 \/ \E s \in Strips : CapInvoke(s, MaxPush + 1))

OutputStoppedThenClosed ==
  (ctlPc \in {"ce_stop", "ce_close"} /\ ControlStep) =>
    /\ output_stream' = "closed" => output_stream = "stopped"
    /\ output_stream' = "stopped" => (output_stream \in {"open", "running"} /\ mixPc = "idle")
    /\ ctlPc' = "ce_iter" => output_stream' \in {"None", "closed"}

ShutdownReleasesEverything ==
  []ShutdownReleased /\ [][OutputStoppedThenClosed]_vars

\* C20 witness: closeEvent has completed with every strip listed still having
\* the device selected on which its stream ran, and the output stream closed.
ClosedWithAllStripsBound ==
  /\ ctlPc = "closed"
  /\ output_stream = "closed"
  /\ Len(input_strips) = MaxStrips
  /\ \A s \in Range(input_strips) : device[s] # NoDevice

====
